---------------------------- MODULE Spec2Model ----------------------------
(***************************************************************************)
(* The "#deerzone chart" page: a React component (Home) that loads the     *)
(* current week, loads its songs, keeps a selection set, submits a vote    *)
(* and previews audio.  The repository holds two revisions of the page:    *)
(*   "part_000"  src/unnamed/part_000      (tabs, isVoting, voteOk)        *)
(*   "page_js"   src/web/app/page.js       (filter, no vote guards)        *)
(* The variable rev says which revision is mounted.  Every handler is one  *)
(* action; a handler that awaits is split at its await: the request in     *)
(* flight is state, its resolution is a second action.                     *)
(***************************************************************************)
EXTENDS Integers, Sequences, FiniteSets, TLC

\* ------------------------------------------------------------- bounds
NumSongs == 4       \* songs of the week on the server
MaxFetches == 3     \* song-list fetches started in one run
MaxPosts == 2       \* vote POSTs issued in one run
MaxAudio == 3       \* Audio elements constructed in one run
FewSongs == 2       \* songs of the week in the short voting runs

\* ------------------------------------------------- program constants
MAX == 10           \* part_000:152  const MAX = 10
WeekId == 3         \* the id of the week the API answers with

Revs == {"part_000", "page_js"}

\* --------------------------------------------------------------- text
\* Strings are sequences of one-character strings, so that toLowerCase and
\* includes are computed, not assumed.
Upper == <<"A", "B", "X", "Y">>
LowerOf == <<"a", "b", "x", "y">>

toLowerCaseChar(c) ==
    IF \E i \in 1..Len(Upper) : Upper[i] = c
    THEN LowerOf[CHOOSE i \in 1..Len(Upper) : Upper[i] = c]
    ELSE c

toLowerCase(s) == [i \in 1..Len(s) |-> toLowerCaseChar(s[i])]

includes(s, q) ==
    \E i \in 0..(Len(s) - Len(q)) : SubSeq(s, i + 1, i + Len(q)) = q

\* ------------------------------------------------------------- songs
\* The week's songs as the API holds them.  Song i takes its fields from
\* four patterns, so that every tab, both preview kinds, a missing preview,
\* an artist tie and a case difference occur.
Pat(i) == ((i - 1) % 4) + 1

Song(i) ==
    [ id          |-> i,
      artist      |-> << <<"B">>, <<"a">>, <<"a">>, <<"b">> >>[Pat(i)],
      title       |-> << <<"x">>, <<"y">>, <<"a">>, <<"X">> >>[Pat(i)],
      is_new      |-> << TRUE, FALSE, FALSE, TRUE >>[Pat(i)],
      source      |-> << "new", "carryover", "new", "" >>[Pat(i)],
      preview_url |-> << "audio", "audio", "youtube", "" >>[Pat(i)] ]

Catalogue(n) == [i \in 1..n |-> Song(i)]

Ids(list) == {list[i].id : i \in 1..Len(list)}

\* Search texts the user types.
Queries == { <<>>, <<"a">>, <<"x">> }

\* GET /weeks/{id}/songs?filter=..&search=..: the remote API keeps the songs
\* that pass the filter and whose artist or title contains the search text,
\* case-insensitively.
ServerSongs(catalogue, f, q) ==
    SelectSeq(catalogue,
              LAMBDA s : /\ (f = "new" => s.is_new)
                         /\ \/ includes(toLowerCase(s.artist), toLowerCase(q))
                            \/ includes(toLowerCase(s.title), toLowerCase(q)))

\* ---------------------------------------------------------- messages
\* error is a record: the message the page shows, and for an HTTP error the
\* status and the body text the message embeds.
Msg(m) == [msg |-> m, status |-> 0, detail |-> ""]
HttpMsg(m, status, detail) == [msg |-> m, status |-> status, detail |-> detail]
NoError == Msg("")

VARIABLES
    rev,        \* which revision of the page is mounted
    catalogue,  \* the songs of the week on the server
    mounted,    \* the component is mounted
    initData,   \* getInitDataSafe(): "" outside Telegram
    week,       \* week?.id, 0 while week is null
    weekReq,    \* the /weeks/current fetch: "pending" | "done"
    tab,        \* part_000: tab; page_js: filter
    search,
    songs,      \* the stored song list
    songReqs,   \* song-list fetches in flight: set of [seq, f, q]
    fetchSeq,   \* number of song-list fetches started
    lastFetch,  \* outcome of the most recently started song-list fetch
    selected,   \* the selection set
    error,
    isVoting,   \* part_000 only
    voteOk,     \* part_000 only
    voteReqs,   \* vote POSTs in flight: sequence of [song_ids, cred]
    posts,      \* number of vote POSTs issued
    lastVote,   \* the last resolved vote POST: its response, and the ids
                \* selected then that its request had not sent
    audioRef,   \* audioRef.current: index into audios, 0 for null
    playingId,  \* 0 for null
    audios      \* the Audio elements constructed so far

fetchVars == <<week, weekReq, tab, search, songs, songReqs, fetchSeq, lastFetch>>
voteVars == <<isVoting, voteOk, voteReqs, posts, lastVote>>
audioVars == <<audioRef, playingId, audios>>
envVars == <<rev, catalogue, mounted, initData>>
vars == <<envVars, fetchVars, selected, error, voteVars, audioVars>>


\* ------------------------------------------------------ view derivation
\* localeCompare on lower-cased text: letters in alphabetical order, a
\* shorter text before its extensions.  -1, 0 or 1.
Alphabet == <<"a", "A", "b", "B", "x", "X", "y", "Y">>
Rank(c) == CHOOSE i \in 1..Len(Alphabet) : Alphabet[i] = c

RECURSIVE localeCompare(_, _)
localeCompare(a, b) ==
    IF a = <<>> /\ b = <<>> THEN 0
    ELSE IF a = <<>> THEN -1
    ELSE IF b = <<>> THEN 1
    ELSE IF Rank(Head(a)) < Rank(Head(b)) THEN -1
    ELSE IF Rank(Head(a)) > Rank(Head(b)) THEN 1
    ELSE localeCompare(Tail(a), Tail(b))

sortByArtistThenTitle(a, b) ==
    LET c1 == localeCompare(toLowerCase(a.artist), toLowerCase(b.artist))
    IN  IF c1 # 0 THEN c1
        ELSE localeCompare(toLowerCase(a.title), toLowerCase(b.title))

\* Array.prototype.sort with a comparator: a stable sort.
RECURSIVE InsertSorted(_, _)
InsertSorted(sorted, s) ==
    IF sorted = <<>> THEN <<s>>
    ELSE IF sortByArtistThenTitle(s, Head(sorted)) < 0
         THEN <<s>> \o sorted
         ELSE <<Head(sorted)>> \o InsertSorted(Tail(sorted), s)

RECURSIVE SortSongs(_)
SortSongs(list) ==
    IF list = <<>> THEN <<>>
    ELSE InsertSorted(SortSongs(SubSeq(list, 1, Len(list) - 1)), list[Len(list)])

\* part_000: the useMemo over [songs, tab].
displaySongs(list, t) ==
    LET filtered ==
            IF t = "new" THEN SelectSeq(list, LAMBDA s : s.is_new)
            ELSE IF t = "current"
                 THEN SelectSeq(list, LAMBDA s : s.source = "carryover")
                 ELSE list
    IN  SortSongs(filtered)

\* The rows the page renders: part_000 maps displaySongs, page_js maps songs.
Rows == IF rev = "part_000" THEN displaySongs(songs, tab) ELSE songs

\* ------------------------------------------------------------- fetching
\* Whether the song-list effect issues a request: page_js returns before the
\* fetch when initData is empty, part_000 does not.
SongsEffectFetches == rev = "part_000" \/ initData # ""

\* The song-list effect, run after a render in which week?.id, search (and,
\* in page_js, filter) changed to w, f, q.
songsEffect(w, f, q) ==
    IF w = 0
    THEN UNCHANGED <<error, songReqs, fetchSeq, lastFetch>>
    ELSE IF SongsEffectFetches
    THEN /\ error' = NoError
         /\ fetchSeq' = fetchSeq + 1
         /\ songReqs' = songReqs \cup
                {[ seq  |-> fetchSeq + 1,
                   f    |-> IF rev = "part_000" THEN "all" ELSE f,
                   q    |-> q,
                   cred |-> initData # "" ]}
         /\ lastFetch' = [st |-> "pending", data |-> <<>>]
    ELSE /\ error' = Msg("Open through Telegram")
         /\ UNCHANGED <<songReqs, fetchSeq, lastFetch>>

WeekOutcomes == {"ok", "http", "not_json", "network"}

\* Resolution of the /weeks/current fetch started on mount.
weekEffectDone(outcome) ==
    /\ mounted
    /\ weekReq = "pending"
    /\ weekReq' = "done"
    /\ IF outcome = "ok"
       THEN /\ week' = WeekId
            /\ songsEffect(WeekId, tab, search)
       ELSE /\ week' = week
            /\ error' = CASE outcome = "http" -> HttpMsg("API error", 500, "other")
                          [] outcome = "not_json" -> Msg("API returned non-JSON")
                          [] OTHER -> IF rev = "part_000"
                                      THEN Msg("Failed to load the list")
                                      ELSE Msg("Failed to fetch")
            /\ UNCHANGED <<songReqs, fetchSeq, lastFetch>>
    /\ UNCHANGED <<envVars, tab, search, songs, selected, voteVars, audioVars>>

\* onChange of the search input.
setSearch(q) ==
    /\ mounted
    /\ q # search
    /\ fetchSeq < MaxFetches
    /\ search' = q
    /\ songsEffect(week, tab, q)
    /\ UNCHANGED <<envVars, week, weekReq, tab, songs, selected, voteVars, audioVars>>

\* part_000: the tab buttons; the song-list effect does not depend on tab.
setTab(t) ==
    /\ mounted
    /\ rev = "part_000"
    /\ t # tab
    /\ tab' = t
    /\ UNCHANGED <<envVars, week, weekReq, search, songs, songReqs, fetchSeq,
                   lastFetch, selected, error, voteVars, audioVars>>

\* page_js: the New / All buttons; filter is a dependency of the effect.
setFilter(f) ==
    /\ mounted
    /\ rev = "page_js"
    /\ f # tab
    /\ fetchSeq < MaxFetches
    /\ tab' = f
    /\ songsEffect(week, f, search)
    /\ UNCHANGED <<envVars, week, weekReq, search, songs, selected, voteVars, audioVars>>

SongOutcomes == {"ok", "not_array", "http", "network"}

\* What a resolved song-list fetch stores, and the message it sets.
SongsStored(r, outcome) ==
    IF outcome = "ok" THEN ServerSongs(catalogue, r.f, r.q)
    ELSE IF outcome = "not_array" THEN <<>>
    ELSE IF rev = "part_000" THEN <<>>
    ELSE songs

SongsError(outcome) ==
    IF outcome \in {"ok", "not_array"} THEN error
    ELSE IF rev = "part_000" THEN Msg("Failed to load the list")
    ELSE Msg("Load failed")

\* The selection after a song-list fetch stored its list: the effect never
\* touches selected.
SelectedAfterFetch(list) == selected

\* Resolution of one song-list fetch in flight, whichever it is.
songsEffectDone(r, outcome) ==
    /\ mounted
    /\ r \in songReqs
    /\ songReqs' = songReqs \ {r}
    /\ songs' = SongsStored(r, outcome)
    /\ error' = SongsError(outcome)
    /\ selected' = SelectedAfterFetch(SongsStored(r, outcome))
    /\ lastFetch' = IF r.seq # fetchSeq THEN lastFetch
                    ELSE IF outcome = "ok"
                         THEN [st |-> "ok", data |-> ServerSongs(catalogue, r.f, r.q)]
                         ELSE [st |-> "failed", data |-> <<>>]
    /\ UNCHANGED <<envVars, week, weekReq, tab, search, fetchSeq, voteVars, audioVars>>

\* ------------------------------------------------------------ selection
\* The functional update of setSelected.
Toggled(prev, id) == IF id \in prev THEN prev \ {id} ELSE prev \cup {id}

\* onClick of a rendered row.
toggleSong(id) ==
    /\ mounted
    /\ id \in Ids(Rows)
    /\ selected' = Toggled(selected, id)
    /\ UNCHANGED <<envVars, fetchVars, error, voteVars, audioVars>>

\* ----------------------------------------------------------------- vote
RemoveAt(seq, i) == SubSeq(seq, 1, i - 1) \o SubSeq(seq, i + 1, Len(seq))

\* What the vote endpoint may answer: a status and a body; status 0 stands for
\* a transport failure (fetch or r.text() rejects).
VoteResponses ==
    { [status |-> 200, body |-> "ok"],
      [status |-> 400, body |-> "too_many_songs"],
      [status |-> 400, body |-> "other"],
      [status |-> 401, body |-> "other"],
      [status |-> 403, body |-> "other"],
      [status |-> 409, body |-> "other"],
      [status |-> 500, body |-> "not_json"],
      [status |-> 0, body |-> ""] }

NoVote == [status |-> -1, body |-> "", unsent |-> {}]

\* r.ok
Ok(resp) == resp.status >= 200 /\ resp.status <= 299

\* The disabled attribute of the VOTE button, negated.
\* part_000: disabled={selectedCount === 0 || isVoting}; page_js: disabled={!week?.id}
VoteButtonEnabled ==
    IF rev = "part_000" THEN ~(Cardinality(selected) = 0 \/ isVoting)
    ELSE week # 0

\* part_000 submitVote: the guard that stops before the fetch, as the message
\* it sets: "return" for the silent return, "" when the request goes out.
SubmitGuard ==
    IF week = 0 THEN "return"
    ELSE IF initData = "" THEN "Voting needs Telegram initData"
    ELSE IF Cardinality(selected) = 0 THEN "Select at least one song"
    ELSE IF Cardinality(selected) > MAX THEN "At most MAX songs"
    ELSE ""

\* part_000: onClick of the VOTE button.
submitVote ==
    /\ mounted
    /\ rev = "part_000"
    /\ VoteButtonEnabled
    /\ SubmitGuard = "" => posts < MaxPosts
    /\ IF SubmitGuard = "return"
       THEN UNCHANGED <<error, isVoting, voteReqs, posts>>
       ELSE IF SubmitGuard # ""
       THEN /\ error' = Msg(SubmitGuard)
            /\ UNCHANGED <<isVoting, voteReqs, posts>>
       ELSE /\ isVoting' = TRUE
            /\ error' = NoError
            /\ voteReqs' = Append(voteReqs, [song_ids |-> selected, cred |-> TRUE])
            /\ posts' = posts + 1
    /\ UNCHANGED <<envVars, fetchVars, selected, voteOk, lastVote, audioVars>>

\* page_js: onClick of the VOTE button.
vote ==
    /\ mounted
    /\ rev = "page_js"
    /\ VoteButtonEnabled
    /\ posts < MaxPosts
    /\ error' = NoError
    /\ voteReqs' = Append(voteReqs, [song_ids |-> selected, cred |-> initData # ""])
    /\ posts' = posts + 1
    /\ UNCHANGED <<envVars, fetchVars, selected, isVoting, voteOk, lastVote, audioVars>>

\* The message a resolved vote request leaves in error.
VoteError(resp) ==
    IF resp.status = 0
    THEN IF rev = "part_000" THEN Msg("Failed to send the vote") ELSE Msg("Failed to fetch")
    ELSE IF ~Ok(resp) THEN HttpMsg("Vote error", resp.status, resp.body)
    ELSE error

\* A success handler that deselects only the ids the request had sent.
SelectedMinusSent(resp) ==
    IF rev = "part_000" /\ Ok(resp) THEN selected \ voteReqs[1].song_ids
    ELSE selected

\* The selection a resolved vote request leaves: part_000 clears it on r.ok,
\* page_js only alerts.
SelectedAfterVote(resp) ==
    IF rev = "part_000" /\ Ok(resp) THEN {} ELSE selected

VoteOkAfterVote(resp) ==
    IF rev = "part_000" /\ Ok(resp) THEN TRUE ELSE voteOk

\* setIsVoting(false) after the success path only, not in a finally.
IsVotingResetOnSuccessOnly(resp) == IF Ok(resp) THEN FALSE ELSE isVoting

\* isVoting once a vote request has resolved: part_000 runs
\* finally { setIsVoting(false) } on every path; page_js has no such state.
IsVotingAfterVote(resp) == FALSE

\* The record of a resolved vote request: the response, and the ids in the
\* selection at that moment that the request body did not carry.
Resolved(i, resp) ==
    [ status |-> resp.status, body |-> resp.body,
      unsent |-> selected \ voteReqs[i].song_ids ]

\* Resolution of the i-th vote request in flight: the code after the await,
\* through catch and finally.
voteDone(i, resp) ==
    /\ mounted
    /\ i \in 1..Len(voteReqs)
    /\ voteReqs' = RemoveAt(voteReqs, i)
    /\ error' = VoteError(resp)
    /\ selected' = SelectedAfterVote(resp)
    /\ voteOk' = VoteOkAfterVote(resp)
    /\ isVoting' = IsVotingAfterVote(resp)
    /\ lastVote' = Resolved(i, resp)
    /\ UNCHANGED <<envVars, fetchVars, posts, audioVars>>

\* -------------------------------------------------------------- preview
\* An Audio element: the song it was built for, the kind of its url, its
\* playback state, which play() call's promise is outstanding, and the events
\* queued for its handlers.
\*   state: "starting" (play() called, promise pending), "playing", "paused",
\*          "ended" (reached the end, paused by the browser, the ended event
\*          not yet delivered), "failed"
NewAudio(song) ==
    [ song |-> song.id, kind |-> song.preview_url, state |-> "starting",
      via |-> "start", abortEv |-> FALSE, endedEv |-> FALSE ]

\* HTMLMediaElement.pause(): a pending play() promise is rejected with
\* AbortError in a task queued for later.
pause(e) ==
    IF e.state = "starting" THEN [e EXCEPT !.state = "paused", !.abortEv = TRUE]
    ELSE IF e.state \in {"playing", "ended"} THEN [e EXCEPT !.state = "paused"]
    ELSE e

\* HTMLMediaElement.paused
PausedAttr(e) == e.state \in {"paused", "ended", "failed"}

PauseCurrent == IF audioRef = 0 THEN audios ELSE [audios EXCEPT ![audioRef] = pause(@)]

\* part_000 stopAudio, as the new values of audios, audioRef and playingId.
stopAudio == [audios |-> PauseCurrent, audioRef |-> 0, playingId |-> 0]

\* part_000: onClick of a row's Preview button.
playPreview(song) ==
    /\ mounted
    /\ rev = "part_000"
    /\ IF playingId # song.id /\ song.preview_url = "audio"
       THEN /\ Len(audios) < MaxAudio
            /\ audios' = Append(stopAudio.audios, NewAudio(song))
            /\ audioRef' = Len(audios) + 1
            /\ playingId' = song.id
       ELSE /\ audios' = stopAudio.audios
            /\ audioRef' = stopAudio.audioRef
            /\ playingId' = stopAudio.playingId
    /\ error' = IF playingId # song.id /\ song.preview_url = ""
                THEN Msg("No preview_url for this song")
                ELSE error
    /\ UNCHANGED <<envVars, fetchVars, selected, voteVars>>

\* page_js: onClick of a row's Preview button.
togglePreview(song) ==
    /\ mounted
    /\ rev = "page_js"
    /\ IF song.preview_url = ""
       THEN UNCHANGED audioVars
       ELSE IF playingId = song.id /\ audioRef # 0
       THEN /\ audios' = [audios EXCEPT ![audioRef] =
                            IF PausedAttr(@)
                            THEN [@ EXCEPT !.state = "starting", !.via = "resume"]
                            ELSE pause(@)]
            /\ UNCHANGED <<audioRef, playingId>>
       ELSE /\ Len(audios) < MaxAudio
            /\ audios' = Append(PauseCurrent, NewAudio(song))
            /\ audioRef' = Len(audios) + 1
            /\ playingId' = song.id
    /\ UNCHANGED <<envVars, fetchVars, selected, error, voteVars>>

\* The play() promise of element i resolves: playback has begun.
playStarted(i) ==
    /\ i \in 1..Len(audios)
    /\ audios[i].state = "starting"
    /\ audios[i].kind = "audio"
    /\ audios' = [audios EXCEPT ![i].state = "playing"]
    /\ UNCHANGED <<envVars, fetchVars, selected, error, voteVars, audioRef, playingId>>

\* What the rejection handler of element i's play() promise does to playingId
\* and error: part_000 .catch, page_js the catch around await a.play() (the
\* catch of the resume branch only alerts).  State updates of an unmounted
\* component are dropped.
PlayingIdAfterReject(i) ==
    IF ~mounted THEN playingId
    ELSE IF rev = "page_js" /\ audios[i].via = "resume" THEN playingId
    ELSE 0

ErrorAfterReject ==
    IF mounted /\ rev = "part_000" THEN Msg("Could not play the preview") ELSE error

\* The play() promise of element i rejects because playback cannot begin
\* (blocked autoplay, unplayable source); the handler runs.
playFailed(i) ==
    /\ i \in 1..Len(audios)
    /\ audios[i].state = "starting"
    /\ audios' = [audios EXCEPT ![i].state =
                        IF audios[i].via = "resume" THEN "paused" ELSE "failed"]
    /\ playingId' = PlayingIdAfterReject(i)
    /\ error' = ErrorAfterReject
    /\ UNCHANGED <<envVars, fetchVars, selected, voteVars, audioRef>>

\* The AbortError that pause() queued for element i's play() promise arrives;
\* the handler runs.
playAborted(i) ==
    /\ i \in 1..Len(audios)
    /\ audios[i].abortEv
    /\ audios' = [audios EXCEPT ![i].abortEv = FALSE]
    /\ playingId' = PlayingIdAfterReject(i)
    /\ error' = ErrorAfterReject
    /\ UNCHANGED <<envVars, fetchVars, selected, voteVars, audioRef>>

\* Element i reaches the end of its media: the browser queues the ended task.
playbackEnded(i) ==
    /\ i \in 1..Len(audios)
    /\ audios[i].state = "playing"
    /\ audios' = [audios EXCEPT ![i].state = "ended", ![i].endedEv = TRUE]
    /\ UNCHANGED <<envVars, fetchVars, selected, error, voteVars, audioRef, playingId>>

\* audioRef.current after the ended handler of an element: part_000 clears
\* it, the listener of page_js leaves it.
AudioRefAfterEnded == IF rev = "part_000" THEN 0 ELSE audioRef

\* The queued ended task of element i runs: a.onended / the "ended" listener.
onended(i) ==
    /\ i \in 1..Len(audios)
    /\ audios[i].endedEv
    /\ audios' = [audios EXCEPT ![i].endedEv = FALSE,
                                ![i].state = IF @ = "ended" THEN "paused" ELSE @]
    /\ playingId' = IF mounted THEN 0 ELSE playingId
    /\ audioRef' = AudioRefAfterEnded
    /\ UNCHANGED <<envVars, fetchVars, selected, error, voteVars>>

\* The cleanup of the unmount effect.
unmount ==
    /\ mounted
    /\ mounted' = FALSE
    /\ audios' = PauseCurrent
    /\ audioRef' = 0
    /\ UNCHANGED <<rev, catalogue, initData, fetchVars, selected, error, voteVars, playingId>>

\* ------------------------------------------------------- specifications
\* The state after the first render: the /weeks/current fetch is in flight.
InitMounted(n) ==
    /\ rev \in Revs
    /\ catalogue = Catalogue(n)
    /\ mounted = TRUE
    /\ initData \in {"", "tg"}
    /\ week = 0
    /\ weekReq = "pending"
    /\ tab = "all"
    /\ search = <<>>
    /\ songs = <<>>
    /\ songReqs = {}
    /\ fetchSeq = 0
    /\ lastFetch = [st |-> "none", data |-> <<>>]
    /\ selected = {}
    /\ error = NoError
    /\ isVoting = FALSE
    /\ voteOk = FALSE
    /\ voteReqs = <<>>
    /\ posts = 0
    /\ lastVote = NoVote
    /\ audioRef = 0
    /\ playingId = 0
    /\ audios = <<>>

\* The state once the week has loaded and the first song-list fetch has
\* stored its list (page_js without initData never fetches and shows its
\* notice instead).
InitLoaded(n) ==
    /\ rev \in Revs
    /\ catalogue = Catalogue(n)
    /\ mounted = TRUE
    /\ initData \in {"", "tg"}
    /\ week = WeekId
    /\ weekReq = "done"
    /\ tab = "all"
    /\ search = <<>>
    /\ songs = IF SongsEffectFetches THEN ServerSongs(catalogue, "all", <<>>) ELSE <<>>
    /\ songReqs = {}
    /\ fetchSeq = IF SongsEffectFetches THEN 1 ELSE 0
    /\ lastFetch = IF SongsEffectFetches
                   THEN [st |-> "ok", data |-> ServerSongs(catalogue, "all", <<>>)]
                   ELSE [st |-> "none", data |-> <<>>]
    /\ selected = {}
    /\ error = IF SongsEffectFetches THEN NoError ELSE Msg("Open through Telegram")
    /\ isVoting = FALSE
    /\ voteOk = FALSE
    /\ voteReqs = <<>>
    /\ posts = 0
    /\ lastVote = NoVote
    /\ audioRef = 0
    /\ playingId = 0
    /\ audios = <<>>

\* Loading and browsing: the two effects, the search box, the tabs, the rows.
Init == InitMounted(NumSongs)

NextFetch ==
    \/ \E o \in WeekOutcomes : weekEffectDone(o)
    \/ \E q \in Queries : setSearch(q)
    \/ \E t \in {"all", "new", "current"} : setTab(t)
    \/ \E f \in {"all", "new"} : setFilter(f)
    \/ \E r \in songReqs, o \in SongOutcomes : songsEffectDone(r, o)
    \/ \E id \in Ids(Rows) : toggleSong(id)

SpecFetch == Init /\ [][NextFetch]_vars

\* Selecting and voting on a loaded week.
InitVote == InitLoaded(NumSongs)

NextVote ==
    \/ \E id \in Ids(Rows) : toggleSong(id)
    \/ submitVote
    \/ vote
    \/ \E i \in 1..Len(voteReqs), resp \in VoteResponses : voteDone(i, resp)

SpecVote == InitVote /\ [][NextVote]_vars

\* Selecting on a week that has one song more than MAX.
InitSel == InitLoaded(MAX + 1)

NextSel == \E id \in Ids(Rows) : toggleSong(id)

SpecSel == InitSel /\ [][NextSel]_vars

\* Previewing on a loaded week, up to the unmount of the page.
InitAudio == InitLoaded(NumSongs)

NextAudio ==
    \/ \E i \in 1..Len(Rows) : playPreview(Rows[i])
    \/ \E i \in 1..Len(Rows) : togglePreview(Rows[i])
    \/ \E i \in 1..Len(audios) : playStarted(i)
    \/ \E i \in 1..Len(audios) : playFailed(i)
    \/ \E i \in 1..Len(audios) : playAborted(i)
    \/ \E i \in 1..Len(audios) : playbackEnded(i)
    \/ \E i \in 1..Len(audios) : onended(i)
    \/ unmount

SpecAudio == InitAudio /\ [][NextAudio]_vars

\* The whole page.
Next == NextFetch \/ NextVote \/ NextAudio

Spec == Init /\ [][Next]_vars

\* ---------------------------------------------------------------- claims
\* A formula suffixed _part_000 or _page_js is the claim read on that revision
\* alone.

\* C1 (SpecVote): vote submission is single-flight: at most one vote request
\* is in flight at any time, so a submit made while one is in flight issues
\* no second POST.
C1_SingleFlight == Len(voteReqs) <= 1

C1_SingleFlight_part_000 == rev = "part_000" => Len(voteReqs) <= 1

\* C2 (SpecFetch): once every song-list fetch in flight has resolved, the
\* stored list is the response of the most recently started fetch: a late
\* response of an earlier fetch does not overwrite it.
C2_LatestFetchWins ==
    (songReqs = {} /\ lastFetch.st = "ok") => songs = lastFetch.data

\* C3 (SpecSel): the selection never holds more than MAX ids: a toggle of an
\* unselected id when MAX ids are selected leaves the selection unchanged.
C3_SelectionBound == Cardinality(selected) <= MAX

\* C4 (SpecFetch): when the stored list is the list of the latest successful
\* fetch, every selected id is the id of a song in it.
C4_SelectionPruned ==
    (lastFetch.st = "ok" /\ songs = lastFetch.data) => selected \subseteq Ids(songs)

\* A step in which a vote request resolves with an error: a non-2xx status
\* or a transport failure.
VoteFailed == Len(voteReqs') < Len(voteReqs) /\ ~Ok(lastVote')

\* A step in which a vote request resolves with a 2xx status.
VoteSucceeded == Len(voteReqs') < Len(voteReqs) /\ Ok(lastVote')

\* C5 (SpecVote): a vote request that resolves with an error leaves the
\* selection as it was and ends in the error state, not the success state:
\* the error message is set and the success flag is off.
C5_ErrorKeepsSelection ==
    [][VoteFailed => (selected' = selected /\ error' # NoError /\ ~voteOk')]_vars

\* C5 without the state an earlier vote left: the step itself keeps the
\* selection, sets the message and does not touch the success flag.
C5_ErrorPath ==
    [][VoteFailed => (selected' = selected /\ error' # NoError /\ voteOk' = voteOk)]_vars

\* C6 (SpecVote): a vote request that resolves with a 2xx status empties the
\* selection and switches the submission to success.
C6_SuccessClearsSelection ==
    [][VoteSucceeded => (selected' = {} /\ voteOk')]_vars

C6_SuccessClearsSelection_part_000 ==
    [][(rev = "part_000" /\ VoteSucceeded) => (selected' = {} /\ voteOk')]_vars

\* C7 (SpecVote): submit is rejected locally when the selection is empty, has
\* more than MAX ids or the credential is absent: no vote request is ever
\* sent with an empty selection, with more than MAX ids or without the
\* credential.
C7_LocalGuards ==
    \A i \in 1..Len(voteReqs) :
        /\ voteReqs[i].song_ids # {}
        /\ Cardinality(voteReqs[i].song_ids) <= MAX
        /\ voteReqs[i].cred

C7_LocalGuards_part_000 == rev = "part_000" => C7_LocalGuards

\* C8 (SpecFetch): browsing is not gated on the credential: without it, once
\* the week is loaded the song-list fetch has been issued, it carries no
\* credential header, and the list of a first successful fetch is stored.
C8_BrowsingNotGated ==
    (initData = "" /\ week # 0) =>
        /\ fetchSeq > 0
        /\ \A r \in songReqs : ~r.cred
        /\ (fetchSeq = 1 /\ lastFetch.st = "ok") => songs = lastFetch.data

C8_BrowsingNotGated_part_000 == rev = "part_000" => C8_BrowsingNotGated

\* An element that is producing sound.
Playing(i) == audios[i].state = "playing"

\* C9 (SpecAudio): preview exclusivity: at most one audio element is playing,
\* and a song marked as playing is the song of the element held in audioRef.
C9_PreviewExclusive ==
    /\ Cardinality({i \in 1..Len(audios) : Playing(i)}) <= 1
    /\ (playingId # 0 /\ audioRef # 0) => audios[audioRef].song = playingId

C9_PreviewExclusive_page_js == rev = "page_js" => C9_PreviewExclusive

\* The preview button of song is pressed while song is the active playback
\* and its element is playing.
ToggleOfPlaying(song) ==
    /\ playingId = song.id
    /\ audioRef # 0
    /\ Playing(audioRef)
    /\ playPreview(song) \/ togglePreview(song)

\* C10 (SpecAudio): pressing the preview button of the song that is playing
\* stops the audio and clears the playback state: afterwards no element is
\* playing and playingId is null.
C10_ToggleStops ==
    [][(\E i \in 1..Len(Rows) : ToggleOfPlaying(Rows[i])) =>
            /\ playingId' = 0
            /\ \A j \in 1..Len(audios') : audios'[j].state # "playing"]_vars

\* C10 on the element itself: the element that was playing is paused, and
\* part_000 clears playingId and audioRef.
C10_ToggleStopsElement ==
    [][(\E i \in 1..Len(Rows) : ToggleOfPlaying(Rows[i])) =>
            /\ audios'[audioRef].state = "paused"
            /\ rev = "part_000" => (playingId' = 0 /\ audioRef' = 0)]_vars

\* The queued ended event of element i is delivered while i is the active
\* preview: the element held in audioRef, for the song marked as playing.
EndedOfActive(i) ==
    /\ audioRef = i
    /\ playingId = audios[i].song
    /\ onended(i)

\* C11 (SpecAudio): when the active preview reaches its natural end, the
\* ended event clears the active-playback state: afterwards playingId is null
\* and no audio element is held in audioRef.
C11_EndedClears ==
    [][(\E i \in 1..Len(audios) : EndedOfActive(i)) =>
            (playingId' = 0 /\ audioRef' = 0)]_vars

C11_EndedClears_part_000 ==
    [][(rev = "part_000" /\ \E i \in 1..Len(audios) : EndedOfActive(i)) =>
            (playingId' = 0 /\ audioRef' = 0)]_vars

\* C11 on the marker alone: the ended event of an active preview that is
\* still at its end leaves no song marked as playing and the element silent,
\* in both revisions.
C11_EndedClearsMarker ==
    [][\A i \in 1..Len(audios) :
            (EndedOfActive(i) /\ audios[i].state = "ended") =>
                (playingId' = 0 /\ audios'[i].state = "paused")]_vars

\* C12 (SpecAudio): once the page is unmounted no audio element it created is
\* playing, whatever previews preceded the unmount.
C12_UnmountStops ==
    ~mounted => \A i \in 1..Len(audios) : ~Playing(i)

C12_UnmountStops_page_js == rev = "page_js" => C12_UnmountStops

\* C12 on the element the page holds: the unmount pauses the element in
\* audioRef and releases it, in both revisions.
C12_UnmountStopsCurrent ==
    [][(unmount /\ audioRef # 0) =>
            (PausedAttr(audios'[audioRef]) /\ audioRef' = 0)]_vars

\* The ids of the songs of list that belong under tab t.
TabExpected(list, t) ==
    { list[i].id : i \in { j \in 1..Len(list) :
                             \/ t = "all"
                             \/ t = "new" /\ list[j].is_new
                             \/ t = "current" /\ list[j].source = "carryover" } }

\* C13 (SpecFetch): tab filter: the displayed list holds, once each, every
\* stored song under tab "all", exactly the stored songs whose is_new is true
\* under tab "new", and exactly the stored songs whose source is "carryover"
\* under tab "current".
C13_TabFilter ==
    /\ Ids(Rows) = TabExpected(songs, tab)
    /\ Len(Rows) = Cardinality(TabExpected(songs, tab))

C13_TabFilter_part_000 == rev = "part_000" => C13_TabFilter

\* Song s matches search text q: its artist or its title contains q, case
\* ignored.
Matches(s, q) ==
    \/ includes(toLowerCase(s.artist), toLowerCase(q))
    \/ includes(toLowerCase(s.title), toLowerCase(q))

\* C14 (SpecFetch): search filter: whenever the search text is non-empty,
\* every song of the displayed list has an artist or a title that contains
\* the search text as a case-insensitive substring.  (The search texts of
\* the model hold no white space, so trimming leaves them as they are.)
C14_SearchFilter ==
    search # <<>> => \A i \in 1..Len(Rows) : Matches(Rows[i], search)

\* C14 as far as the server's filtering carries it: when the stored list is
\* the response of the latest fetch, every displayed song matches the search.
C14_SearchFilterByServer ==
    (search # <<>> /\ songReqs = {} /\ lastFetch.st = "ok" /\ songs = lastFetch.data)
        => \A i \in 1..Len(Rows) : Matches(Rows[i], search)

\* Lexicographic order of lower-case texts, letters in the order of LowerOf.
LetterIndex(c) == CHOOSE i \in 1..Len(LowerOf) : LowerOf[i] = c

RECURSIVE LexLeq(_, _)
LexLeq(a, b) ==
    IF a = <<>> THEN TRUE
    ELSE IF b = <<>> THEN FALSE
    ELSE IF LetterIndex(Head(a)) < LetterIndex(Head(b)) THEN TRUE
    ELSE IF LetterIndex(Head(a)) > LetterIndex(Head(b)) THEN FALSE
    ELSE LexLeq(Tail(a), Tail(b))

\* Song s may stand before song t: by artist, then by title, case ignored.
InOrder(s, t) ==
    LET sa == toLowerCase(s.artist)
        ta == toLowerCase(t.artist)
    IN  IF sa = ta THEN LexLeq(toLowerCase(s.title), toLowerCase(t.title))
        ELSE LexLeq(sa, ta)

\* C15 (SpecFetch): sort: under every tab the displayed list is in ascending
\* order of case-insensitive artist, ties in ascending order of
\* case-insensitive title.
C15_Sorted ==
    \A i \in 1..(Len(Rows) - 1) : InOrder(Rows[i], Rows[i + 1])

C15_Sorted_part_000 == rev = "part_000" => C15_Sorted

\* C15 on the example: the stored songs B/x, a/y, a/a, b/X (ids 1..4) are
\* displayed by part_000 under tab "all" as a/a, a/y, B/x, b/X.
C15_SortedExample ==
    (rev = "part_000" /\ tab = "all" /\ Ids(songs) = 1..4)
        => [i \in 1..Len(Rows) |-> Rows[i].id] = <<3, 2, 1, 4>>

\* A step in which a submission starts: a vote request goes out.
SubmitStarted == Len(voteReqs') > Len(voteReqs)

\* C16 (SpecVote): the submission status is reset when a new submit starts:
\* the success indicator of an earlier submission is off once the next
\* submission has started, and it is never on together with the error of a
\* later failed submission.
C16_StatusReset ==
    [][/\ SubmitStarted => ~voteOk'
       /\ VoteFailed => ~(voteOk' /\ error' # NoError)]_vars

\* C16 on the sending state alone: part_000 is sending exactly while its one
\* vote request is in flight, and the success indicator comes on only when a
\* request resolves with a 2xx status.
C16_SendingWhileInFlight ==
    rev = "part_000" => (isVoting <=> Len(voteReqs) = 1)

C16_SuccessOnlyFrom2xx ==
    [][(voteOk' /\ ~voteOk) => VoteSucceeded]_vars

\* Some vote request in flight resolves.
VoteResolves ==
    \E i \in 1..Len(voteReqs), resp \in VoteResponses : voteDone(i, resp)

\* Selecting and voting on a loaded week of FewSongs songs, every vote
\* request in flight resolving in the end: the fetch promise settles with a
\* response or a transport failure.
InitVoteFew == InitLoaded(FewSongs)

SpecVoteFew == InitVoteFew /\ [][NextVote]_vars

SpecVoteLive == SpecVoteFew /\ WF_vars(VoteResolves)

\* The last vote request resolved with an error, none is in flight, and the
\* selection holds songs.
RetryReady ==
    /\ lastVote # NoVote
    /\ ~Ok(lastVote)
    /\ voteReqs = <<>>
    /\ selected # {}
    /\ posts < MaxPosts

\* A press of the VOTE button that sends the selection as it is.
Retry ==
    /\ submitVote \/ vote
    /\ voteReqs' = <<[song_ids |-> selected, cred |-> initData # ""]>>

\* C17 (SpecVoteLive): the page stays retryable after any vote error: a
\* submission that is sending leaves the sending state once its request has
\* resolved, whatever the response, and after a vote error a new submit with
\* the selection that was kept sends a new vote request.
C17_Retryable ==
    /\ (voteReqs # <<>>) ~> (voteReqs = <<>> /\ ~isVoting)
    /\ [](RetryReady => ENABLED Retry)

\* C17 is reached: after a failed vote the retry of the same selection is in
\* flight.
C17_Retried ==
    /\ lastVote # NoVote
    /\ ~Ok(lastVote)
    /\ posts = 2
    /\ Len(voteReqs) = 1
    /\ voteReqs[1].song_ids = selected
    /\ selected # {}
    /\ rev = "part_000"
    /\ isVoting

\* The class of a vote response by status and body marker.
Class(resp) ==
    IF resp.status = 0 THEN "Network"
    ELSE IF resp.status = 401 THEN "Unauthenticated"
    ELSE IF resp.status = 403 THEN "AccessDenied"
    ELSE IF resp.status = 409 THEN "AlreadyVoted"
    ELSE IF resp.status = 400 /\ resp.body = "too_many_songs" THEN "TooManySongs"
    ELSE "Generic"

\* The kind of an error the page shows: its message, without the status and
\* the body text the message embeds.
Kind(e) == e.msg

\* C18 (SpecVote): vote responses are classified into distinct error kinds:
\* the error a failed vote leaves differs in kind from the error a response
\* of any other class (401, 403, 409, 400 with the selection-size marker,
\* other non-2xx, transport failure) would leave, and a transport failure is
\* not reported as an HTTP-status error.
C18_DistinctKinds ==
    [][VoteFailed =>
        /\ \A r \in VoteResponses :
              (~Ok(r) /\ Class(r) # Class(lastVote'))
                  => Kind(error') # Kind(VoteError(r))
        /\ lastVote'.status = 0 => error'.status = 0]_vars

\* C18 as far as the code goes: a transport failure and an HTTP error leave
\* different messages, and an HTTP error shows the status and the body it
\* got.
C18_TransportApart ==
    [][VoteFailed =>
        IF lastVote'.status = 0
        THEN error'.status = 0 /\ Kind(error') # Kind(HttpMsg("Vote error", 0, ""))
        ELSE error' = HttpMsg("Vote error", lastVote'.status, lastVote'.body)]_vars

\* C19 (SpecAudio): while the page is mounted the playing marker agrees with
\* the audio resource: a song marked as playing is the song of the element
\* held in audioRef, and that element is starting, playing or at its end
\* with the ended event still to come; when no song is marked, no element is
\* playing.
C19_MarkerAgrees ==
    mounted =>
        /\ playingId # 0 =>
              /\ audioRef # 0
              /\ audios[audioRef].song = playingId
              /\ audios[audioRef].state \in {"starting", "playing", "ended"}
        /\ playingId = 0 => \A i \in 1..Len(audios) : ~Playing(i)

\* C19 on the case of a superseded element: the rejection of the play()
\* promise of an element that is no longer the one in audioRef leaves the
\* marker as it is.
C19_SupersededRejectKeepsMarker ==
    [][\A i \in 1..Len(audios) :
            (playAborted(i) /\ i # audioRef) => playingId' = playingId]_vars

\* C20 (SpecVoteFew), as claimed: a successful vote removes from the selection
\* only ids its request had sent: a song toggled into the selection while
\* the request was in flight is still selected after the success handler.
C20_SuccessKeepsUnsent ==
    [][VoteSucceeded => lastVote'.unsent \subseteq selected']_vars

\* C20 (SpecVoteFew), amended: a successful vote of part_000 empties the
\* selection entirely: a song toggled into the selection while the request
\* was in flight is deselected by the success handler too, although the
\* request had not sent it.
C20_SuccessClearsUnsent ==
    [][(rev = "part_000" /\ VoteSucceeded) => selected' = {}]_vars

\* C20 is reached: part_000 has handled a success while the selection held
\* a song its request had not sent, and the selection is empty.
C20_UnsentCleared ==
    /\ rev = "part_000"
    /\ Ok(lastVote)
    /\ lastVote.unsent # {}
    /\ voteReqs = <<>>
    /\ selected = {}

=============================================================================
